---------------------------- MODULE Spec2Model ----------------------------
(***************************************************************************)
(* A model of the tomb package (goroutine tracking and termination).       *)
(*                                                                         *)
(* The Tomb of src/unnamed/part_001 is the record t (its fields alive,     *)
(* dying, dead and reason) together with its mutex m.  Every method of the *)
(* Tomb takes the mutex for its whole state update, so one critical        *)
(* section is one action.  The two channels are the only part of the Tomb  *)
(* that can be observed without the mutex, so a section that closes both   *)
(* of them (the reap of the last goroutine) is two actions, with the mutex *)
(* held in between.  Wait blocks between its sections and is three         *)
(* actions.  A method's leading t.init() is folded into its action: init   *)
(* changes the Tomb only the first time it runs, and the action Dead (or   *)
(* Dying) is a bare init, so every interleaving of another goroutine       *)
(* between a method's init and its critical section is the run in which    *)
(* some goroutine calls Dead first.                                        *)
(*                                                                         *)
(* Errors are strings: "nil" is Go's nil error, ErrStillAlive and ErrDying *)
(* are the package's two sentinels, RealErrs are the callers' own errors.  *)
(* A channel is "nil" (not made yet), "open" or "closed".                  *)
(*                                                                         *)
(* The earlier Tomb of src/tomb.go (lines 195-300: one goroutine, which    *)
(* calls Done before it returns) is the record d, with its own actions and *)
(* its own specification SpecDone.  The two Tombs are different types: the *)
(* actions of the one leave the variables of the other alone.              *)
(***************************************************************************)
EXTENDS Integers, FiniteSets, Sequences, TLC

\* ------------------------------------------------------------------ bounds
MaxUnits == 2
MaxErr == 2
MaxWaiters == 1
MaxDoners == 1

Units == 1..MaxUnits
Waiters == 1..MaxWaiters
Doners == 1..MaxDoners

\* ------------------------------------------------------------- error values
nil == "nil"
ErrStillAlive == "ErrStillAlive"
ErrDying == "ErrDying"
RealErrs == {"e" \o ToString(i) : i \in 1..MaxErr}
Errors == {nil, ErrStillAlive, ErrDying} \cup RealErrs
IsReal(e) == e \in RealErrs

\* The sentinels of src/tomb.go, and what its Kill can be called with.
errCleanStop == "errCleanStop"
ErrStillRunning == "ErrStillRunning"
Errors1 == {nil, ErrStillRunning} \cup RealErrs

VARIABLES
    t,          \* the Tomb: [alive, dying, dead, reason, made]
    m,          \* the Tomb's mutex: 0 when free, else the unit whose reap holds it
    upc,        \* per unit (a function handed to Go): where its goroutine is
    wpc,        \* per waiter: where its call of Wait is
    crashed,    \* the process has ended on a panic nobody recovered
    last,       \* history: the last step taken, its argument, result and panic
    firstReal,  \* history: the first real error handed to the Tomb under the mutex
    firstWait,  \* history: what the first Wait to return has returned
    killCalled, \* history: Kill or Killf has been called
    killDone,   \* history: a call of Kill or Killf has returned without a panic
    unitFailed, \* history: run has taken the mutex with a non-nil result of f
    d,          \* the Tomb of src/tomb.go: [state, dying, dead, reason, made]
    dpc,        \* per caller of its Done: where the call is
    dwpc,       \* per caller of its Wait: where the call is
    dcrashed,   \* its process has ended on a panic nobody recovered
    dlast,      \* history: the last step taken on it
    dkilled,    \* history: its Kill or Killf has been called (not by Done)
    ddone       \* history: a call of its Done has returned

dvars == <<d, dpc, dwpc, dcrashed, dlast, dkilled, ddone>>

vars == <<t, m, upc, wpc, crashed, last, firstReal, firstWait,
          killCalled, killDone, unitFailed, dvars>>

\* The zero value of a Tomb.  The field made tells which channels t.dying and
\* t.dead refer to: 0 for none (nil), k for the pair of the k-th make.
Tomb == [alive |-> 0, dying |-> "nil", dead |-> "nil", reason |-> nil, made |-> 0]

\* The zero value of the Tomb of src/tomb.go, with the same field made.
Tomb1 == [state |-> "uninitialized", dying |-> "nil", dead |-> "nil", reason |-> nil,
          made |-> 0]

Step(op, arg, ret, panic) == [op |-> op, arg |-> arg, ret |-> ret, panic |-> panic]

\* ---------------------------------------------------------------- the code

\* close(ch): closing a nil or an already closed channel panics.
close(ch) == [ch |-> "closed", panic |-> ch # "open"]

\* init without its test of t.dead: every call makes the Tomb anew.
init_reset(tb) ==
    [tb EXCEPT !.dead = "open", !.dying = "open", !.reason = ErrStillAlive,
               !.made = tb.made + 1]

\* t.init(): its test and its assignments are one critical section of the
\* mutex.  The channels are made, and the reason set, while t.dead is nil.
init(tb) ==
    IF tb.dead = "nil"
    THEN [tb EXCEPT !.dead = "open", !.dying = "open", !.reason = ErrStillAlive,
                    !.made = tb.made + 1]
    ELSE tb

\* kill with its last test dropped: a later error replaces any recorded one.
kill_lastWins(tb, reason) ==
    IF reason = ErrStillAlive
    THEN [t |-> tb, panic |-> TRUE]
    ELSE IF reason = ErrDying
    THEN [t |-> tb, panic |-> tb.reason = ErrStillAlive]
    ELSE IF tb.reason = ErrStillAlive
    THEN [t |-> [tb EXCEPT !.reason = reason, !.dying = close(tb.dying).ch],
          panic |-> close(tb.dying).panic]
    ELSE [t |-> [tb EXCEPT !.reason = reason], panic |-> FALSE]

\* kill without its last branch: a recorded clean stop is never replaced.
kill_cleanSticks(tb, reason) ==
    IF reason = ErrStillAlive
    THEN [t |-> tb, panic |-> TRUE]
    ELSE IF reason = ErrDying
    THEN [t |-> tb, panic |-> tb.reason = ErrStillAlive]
    ELSE IF tb.reason = ErrStillAlive
    THEN [t |-> [tb EXCEPT !.reason = reason, !.dying = close(tb.dying).ch],
          panic |-> close(tb.dying).panic]
    ELSE [t |-> tb, panic |-> FALSE]

\* kill that takes ErrDying in any state, without the panic.
kill_ackNoop(tb, reason) ==
    IF reason = ErrStillAlive
    THEN [t |-> tb, panic |-> TRUE]
    ELSE IF reason = ErrDying
    THEN [t |-> tb, panic |-> FALSE]
    ELSE IF tb.reason = ErrStillAlive
    THEN [t |-> [tb EXCEPT !.reason = reason, !.dying = close(tb.dying).ch],
          panic |-> close(tb.dying).panic]
    ELSE IF tb.reason = nil
    THEN [t |-> [tb EXCEPT !.reason = reason], panic |-> FALSE]
    ELSE [t |-> tb, panic |-> FALSE]

\* kill whose ErrDying branch does not return: ErrDying goes on as a reason.
kill_ackStored(tb, reason) ==
    IF reason = ErrStillAlive
    THEN [t |-> tb, panic |-> TRUE]
    ELSE IF reason = ErrDying /\ tb.reason = ErrStillAlive
    THEN [t |-> tb, panic |-> TRUE]
    ELSE IF tb.reason = ErrStillAlive
    THEN [t |-> [tb EXCEPT !.reason = reason, !.dying = close(tb.dying).ch],
          panic |-> close(tb.dying).panic]
    ELSE IF tb.reason = nil
    THEN [t |-> [tb EXCEPT !.reason = reason], panic |-> FALSE]
    ELSE [t |-> tb, panic |-> FALSE]

\* kill that takes a nil reason for no reason at all.
kill_nilIgnored(tb, reason) ==
    IF reason = ErrStillAlive
    THEN [t |-> tb, panic |-> TRUE]
    ELSE IF reason = ErrDying
    THEN [t |-> tb, panic |-> tb.reason = ErrStillAlive]
    ELSE IF reason = nil
    THEN [t |-> tb, panic |-> FALSE]
    ELSE IF tb.reason = ErrStillAlive
    THEN [t |-> [tb EXCEPT !.reason = reason, !.dying = close(tb.dying).ch],
          panic |-> close(tb.dying).panic]
    ELSE IF tb.reason = nil
    THEN [t |-> [tb EXCEPT !.reason = reason], panic |-> FALSE]
    ELSE [t |-> tb, panic |-> FALSE]

\* kill that records the first reason without close(t.dying).
kill_noClose(tb, reason) ==
    IF reason = ErrStillAlive
    THEN [t |-> tb, panic |-> TRUE]
    ELSE IF reason = ErrDying
    THEN [t |-> tb, panic |-> tb.reason = ErrStillAlive]
    ELSE IF tb.reason \in {ErrStillAlive, nil}
    THEN [t |-> [tb EXCEPT !.reason = reason], panic |-> FALSE]
    ELSE [t |-> tb, panic |-> FALSE]

\* kill without its first test: ErrStillAlive is a reason like any other.
kill_aliveStored(tb, reason) ==
    IF reason = ErrDying
    THEN [t |-> tb, panic |-> tb.reason = ErrStillAlive]
    ELSE IF tb.reason = ErrStillAlive
    THEN [t |-> [tb EXCEPT !.reason = reason, !.dying = close(tb.dying).ch],
          panic |-> close(tb.dying).panic]
    ELSE IF tb.reason = nil
    THEN [t |-> [tb EXCEPT !.reason = reason], panic |-> FALSE]
    ELSE [t |-> tb, panic |-> FALSE]

\* t.kill(reason), called with the mutex held.
kill(tb, reason) ==
    IF reason = ErrStillAlive
    THEN [t |-> tb, panic |-> TRUE]
    ELSE IF reason = ErrDying
    THEN [t |-> tb, panic |-> tb.reason = ErrStillAlive]
    ELSE IF tb.reason = ErrStillAlive
    THEN [t |-> [tb EXCEPT !.reason = reason, !.dying = close(tb.dying).ch],
          panic |-> close(tb.dying).panic]
    ELSE IF tb.reason = nil
    THEN [t |-> [tb EXCEPT !.reason = reason], panic |-> FALSE]
    ELSE [t |-> tb, panic |-> FALSE]

\* Go without its select on t.dead: a dead Tomb counts the functions too.
register_noDeadCheck(tb, n) == [tb EXCEPT !.alive = tb.alive + n]

\* Go that counts one goroutine for the whole call (t.alive++).
register_countsOne(tb, n) ==
    IF tb.dead = "closed" THEN tb
    ELSE [tb EXCEPT !.alive = tb.alive + (IF n > 0 THEN 1 ELSE 0)]

\* Go whose select is on t.dying: a dying Tomb takes no functions.
register_unlessDying(tb, n) ==
    IF tb.dying = "closed" THEN tb ELSE [tb EXCEPT !.alive = tb.alive + n]

\* The body of t.Go(f...) after init, for len(f) = n: nothing on a dead Tomb.
register(tb, n) ==
    IF tb.dead = "closed" THEN tb ELSE [tb EXCEPT !.alive = tb.alive + n]

\* Go that starts no goroutine once the Tomb is dying.
starts_unlessDying(tb) == tb.dying # "closed"

\* Whether t.Go(f...) starts its goroutines.
starts(tb) == tb.dead # "closed"

\* run that calls kill only when the last goroutine returns.
run_killOnlyWhenLast(tb, err) ==
    LET t1 == [tb EXCEPT !.alive = tb.alive - 1]
        k == kill(t1, err)
    IN  IF t1.alive = 0
        THEN [t |-> k.t, panic |-> k.panic, closes |-> ~k.panic /\ k.t.alive = 0]
        ELSE [t |-> t1, panic |-> FALSE, closes |-> FALSE]

\* run without t.alive--.
run_noDecrement(tb, err) ==
    LET k == kill(tb, err)
    IN  IF tb.alive = 0 \/ err # nil
        THEN [t |-> k.t, panic |-> k.panic, closes |-> ~k.panic /\ k.t.alive = 0]
        ELSE [t |-> tb, panic |-> FALSE, closes |-> FALSE]

\* run without close(t.dead).
run_neverCloses(tb, err) ==
    LET t1 == [tb EXCEPT !.alive = tb.alive - 1]
        k == kill(t1, err)
    IN  IF t1.alive = 0 \/ err # nil
        THEN [t |-> k.t, panic |-> k.panic, closes |-> FALSE]
        ELSE [t |-> t1, panic |-> FALSE, closes |-> FALSE]

\* run with close(t.dead) moved out of the test of t.alive.
run_closeOnError(tb, err) ==
    LET t1 == [tb EXCEPT !.alive = tb.alive - 1]
        k == kill(t1, err)
    IN  IF t1.alive = 0 \/ err # nil
        THEN [t |-> k.t, panic |-> k.panic, closes |-> ~k.panic]
        ELSE [t |-> t1, panic |-> FALSE, closes |-> FALSE]

\* run that calls kill only for a non-nil err.
run_noKillOnLast(tb, err) ==
    LET t1 == [tb EXCEPT !.alive = tb.alive - 1]
        k == kill(t1, err)
    IN  IF err # nil
        THEN [t |-> k.t, panic |-> k.panic, closes |-> ~k.panic /\ k.t.alive = 0]
        ELSE [t |-> t1, panic |-> FALSE, closes |-> t1.alive = 0]

\* t.run(f) from the return of f (with err) up to close(t.dead): the Tomb
\* after it, whether it panicked, and whether close(t.dead) comes next.
run(tb, err) ==
    LET t1 == [tb EXCEPT !.alive = tb.alive - 1]
        k == kill(t1, err)
    IN  IF t1.alive = 0 \/ err # nil
        THEN [t |-> k.t, panic |-> k.panic, closes |-> ~k.panic /\ k.t.alive = 0]
        ELSE [t |-> t1, panic |-> FALSE, closes |-> FALSE]

\* ------------------------------------------------------------------- Init
Init ==
    /\ t = Tomb
    /\ m = 0
    /\ upc = [u \in Units |-> "idle"]
    /\ wpc = [w \in Waiters |-> "idle"]
    /\ crashed = FALSE
    /\ last = Step("none", "", "", FALSE)
    /\ firstReal = "none"
    /\ firstWait = "none"
    /\ killCalled = FALSE
    /\ killDone = FALSE
    /\ unitFailed = FALSE
    /\ d = Tomb1
    /\ dpc = [c \in Doners |-> "idle"]
    /\ dwpc = [w \in Waiters |-> "idle"]
    /\ dcrashed = FALSE
    /\ dlast = Step("none", "", "", FALSE)
    /\ dkilled = FALSE
    /\ ddone = FALSE

Free == m = 0 /\ ~crashed

\* ---------------------------------------------------------------- actions

\* t.Dead(): init, then the channel.
Dead ==
    /\ Free
    /\ t' = init(t)
    /\ last' = Step("Dead", "", init(t).dead, FALSE)
    /\ UNCHANGED <<m, upc, wpc, crashed, firstReal, firstWait,
                   killCalled, killDone, unitFailed>>
    /\ UNCHANGED dvars

\* t.Dying(): init, then the channel.
Dying ==
    /\ Free
    /\ t' = init(t)
    /\ last' = Step("Dying", "", init(t).dying, FALSE)
    /\ UNCHANGED <<m, upc, wpc, crashed, firstReal, firstWait,
                   killCalled, killDone, unitFailed>>
    /\ UNCHANGED dvars

\* t.Err().
Err ==
    /\ Free
    /\ t' = init(t)
    /\ last' = Step("Err", "", init(t).reason, FALSE)
    /\ UNCHANGED <<m, upc, wpc, crashed, firstReal, firstWait,
                   killCalled, killDone, unitFailed>>
    /\ UNCHANGED dvars

\* t.Alive(): t.Err() == ErrStillAlive.
Alive ==
    /\ Free
    /\ t' = init(t)
    /\ last' = Step("Alive", "", ToString(init(t).reason = ErrStillAlive), FALSE)
    /\ UNCHANGED <<m, upc, wpc, crashed, firstReal, firstWait,
                   killCalled, killDone, unitFailed>>
    /\ UNCHANGED dvars

\* t.Go(f...) for the functions S (possibly none): on a dead Tomb they are
\* dropped, otherwise all of them are counted and started under the mutex.
Go(S) ==
    /\ Free
    /\ \A u \in S : upc[u] = "idle"
    /\ t' = register(init(t), Cardinality(S))
    /\ upc' = [u \in Units |->
                 IF u \in S
                 THEN (IF starts(init(t)) THEN "running" ELSE "dropped")
                 ELSE upc[u]]
    /\ last' = Step("Go", ToString(Cardinality(S)), "", FALSE)
    /\ UNCHANGED <<m, wpc, crashed, firstReal, firstWait,
                   killCalled, killDone, unitFailed>>
    /\ UNCHANGED dvars

\* The common part of Kill and Killf: init, lock, kill, deferred unlock.  A
\* panic leaves the caller to recover it (rec) or ends the process.
KillWith(op, reason, ret) ==
    LET k == kill(init(t), reason)
    IN  /\ Free
        /\ t' = k.t
        /\ last' = Step(op, reason, ret, k.panic)
        /\ \E rec \in BOOLEAN : crashed' = (k.panic /\ ~rec)
        /\ firstReal' = IF firstReal = "none" /\ IsReal(reason) THEN reason ELSE firstReal
        /\ killCalled' = TRUE
        /\ killDone' = (killDone \/ ~k.panic)
        /\ UNCHANGED <<m, upc, wpc, firstWait, unitFailed>>
        /\ UNCHANGED dvars

\* t.Kill(reason), for any error value.
Kill(reason) ==
    /\ Free
    /\ KillWith("Kill", reason, "")

\* t.Killf(f, a...): fmt.Errorf makes a real error, which is also returned.
Killf(err) ==
    /\ Free
    /\ KillWith("Killf", err, err)

\* t.run(f) when f returns err: lock, t.alive--, kill.  The return of f is
\* seen by nobody before run has the mutex, so it is one step with the lock.
\* A panic here is in the goroutine's own top frame: nobody can recover it.
\* When close(t.dead) comes next the mutex stays held.
Run(u, err) ==
    LET r == run(t, err)
    IN  /\ Free
        /\ upc[u] = "running"
        /\ t' = r.t
        /\ crashed' = r.panic
        /\ m' = IF r.closes THEN u ELSE 0
        /\ upc' = [upc EXCEPT ![u] = IF r.panic THEN "panicked"
                                     ELSE IF r.closes THEN "closing" ELSE "done"]
        /\ last' = Step("run", err, "", r.panic)
        /\ firstReal' = IF firstReal = "none" /\ IsReal(err) THEN err ELSE firstReal
        /\ unitFailed' = (unitFailed \/ err # nil)
        /\ UNCHANGED <<wpc, firstWait, killCalled, killDone>>
        /\ UNCHANGED dvars

\* t.run(f): close(t.dead), then the deferred unlock.
RunClose(u) ==
    /\ ~crashed
    /\ upc[u] = "closing"
    /\ m = u
    /\ t' = [t EXCEPT !.dead = close(t.dead).ch]
    /\ crashed' = close(t.dead).panic
    /\ m' = 0
    /\ upc' = [upc EXCEPT ![u] = IF close(t.dead).panic THEN "panicked" ELSE "done"]
    /\ last' = Step("close", "", "", close(t.dead).panic)
    /\ UNCHANGED <<wpc, firstReal, firstWait, killCalled, killDone, unitFailed>>
    /\ UNCHANGED dvars

\* Wait that takes the mutex before it blocks on <-t.dead.
WaitCall_holdsLock(w) ==
    /\ m = 0 /\ ~crashed
    /\ wpc[w] = "idle"
    /\ t' = init(t)
    /\ m' = 0 - w
    /\ wpc' = [wpc EXCEPT ![w] = "blocked"]
    /\ last' = Step("Wait", "", "", FALSE)
    /\ UNCHANGED <<upc, crashed, firstReal, firstWait,
                   killCalled, killDone, unitFailed>>
    /\ UNCHANGED dvars

\* t.Wait(): init, then block on <-t.dead.
WaitCall(w) ==
    /\ Free
    /\ wpc[w] = "idle"
    /\ t' = init(t)
    /\ wpc' = [wpc EXCEPT ![w] = "blocked"]
    /\ last' = Step("Wait", "", "", FALSE)
    /\ UNCHANGED <<m, upc, crashed, firstReal, firstWait,
                   killCalled, killDone, unitFailed>>
    /\ UNCHANGED dvars

\* A receive that never blocks.
recv_nonblocking(ch) == ch # "nil"

\* Whether a receive from the channel goes through: only on a closed one.
recv(ch) == ch = "closed"

\* t.Wait(): <-t.dead goes through (no mutex is taken for it).
WaitRecv(w) ==
    /\ ~crashed
    /\ wpc[w] = "blocked"
    /\ recv(t.dead)
    /\ wpc' = [wpc EXCEPT ![w] = "woken"]
    /\ last' = Step("recv", "", "", FALSE)
    /\ UNCHANGED <<t, m, upc, crashed, firstReal, firstWait,
                   killCalled, killDone, unitFailed>>
    /\ UNCHANGED dvars

\* t.Wait(): lock, read t.reason, unlock, return it.
WaitRet(w) ==
    /\ Free
    /\ wpc[w] = "woken"
    /\ wpc' = [wpc EXCEPT ![w] = "idle"]
    /\ last' = Step("WaitRet", "", t.reason, FALSE)
    /\ firstWait' = IF firstWait = "none" THEN t.reason ELSE firstWait
    /\ UNCHANGED <<t, m, upc, crashed, firstReal, killCalled, killDone, unitFailed>>
    /\ UNCHANGED dvars

Next ==
    \/ Dead
    \/ Dying
    \/ Err
    \/ Alive
    \/ \E S \in SUBSET Units : Go(S)
    \/ \E reason \in Errors : Kill(reason)
    \/ \E err \in RealErrs : Killf(err)
    \/ \E u \in Units, err \in Errors : Run(u, err)
    \/ \E u \in Units : RunClose(u)
    \/ \E w \in Waiters : WaitCall(w)
    \/ \E w \in Waiters : WaitRecv(w)
    \/ \E w \in Waiters : WaitRet(w)

Spec == Init /\ [][Next]_vars

\* Spec with the scheduling the liveness of the Tomb rests on: a started
\* function returns and its goroutine gets the mutex (some function, as long
\* as one is running: each returns once, so all of them do), a reap that holds
\* the mutex goes on to close(t.dead), and each caller of Wait is scheduled
\* when its receive can go through or it can take the mutex.
FairSpec ==
    /\ Spec
    /\ WF_vars(\E u \in Units, err \in Errors : Run(u, err))
    /\ WF_vars(\E u \in Units : RunClose(u))
    /\ \A w \in Waiters : WF_vars(WaitRecv(w) \/ WaitRet(w))

\* ------------------------------------------- the Tomb of src/tomb.go (Done)

\* The variables of the Tomb of src/unnamed/part_001, which no operation on
\* the Tomb of src/tomb.go touches.
tvars == <<t, m, upc, wpc, crashed, last, firstReal, firstWait,
           killCalled, killDone, unitFailed>>

\* init that makes the channels without looking at t.state.
init1_reset(tb) ==
    [tb EXCEPT !.dead = "open", !.dying = "open", !.state = "running",
               !.made = tb.made + 1]

\* t.init(): its test and its assignments are one critical section of the
\* mutex.  The channels are made while t.state is uninitialized.
init1(tb) ==
    IF tb.state = "uninitialized"
    THEN [tb EXCEPT !.dead = "open", !.dying = "open", !.state = "running",
                    !.made = tb.made + 1]
    ELSE tb

\* Kill that forgets close(t.dying) and the change of t.state.
kill1_noDying(tb, reason) ==
    LET r == IF reason = nil THEN errCleanStop ELSE reason
    IN  [t |-> IF tb.reason \in {nil, errCleanStop} THEN [tb EXCEPT !.reason = r] ELSE tb,
         panic |-> FALSE]

\* Kill that closes t.dying whatever t.state is.
kill1_closeUnguarded(tb, reason) ==
    LET r == IF reason = nil THEN errCleanStop ELSE reason
        t1 == IF tb.reason \in {nil, errCleanStop} THEN [tb EXCEPT !.reason = r] ELSE tb
    IN  [t |-> [t1 EXCEPT !.dying = close(t1.dying).ch, !.state = "dying"],
         panic |-> close(t1.dying).panic]

\* Kill after its init: nil becomes errCleanStop, then under the mutex the
\* reason is stored over nil or errCleanStop and t.dying is closed when
\* t.state is running.  Yields the Tomb and whether close panicked.
kill1(tb, reason) ==
    LET r == IF reason = nil THEN errCleanStop ELSE reason
        t1 == IF tb.reason \in {nil, errCleanStop} THEN [tb EXCEPT !.reason = r] ELSE tb
    IN  IF t1.state = "running"
        THEN [t |-> [t1 EXCEPT !.dying = close(t1.dying).ch, !.state = "dying"],
              panic |-> close(t1.dying).panic]
        ELSE [t |-> t1, panic |-> FALSE]

\* What Err and Wait hand out for a stored reason.
result1(reason) == IF reason = errCleanStop THEN nil ELSE reason

Free1 == ~dcrashed

\* t.Dead(): init, return t.dead.
Dead1 ==
    /\ Free1
    /\ d' = init1(d)
    /\ dlast' = Step("Dead", "", init1(d).dead, FALSE)
    /\ UNCHANGED <<dpc, dwpc, dcrashed, dkilled, ddone>>
    /\ UNCHANGED tvars

\* t.Dying(): init, return t.dying.
Dying1 ==
    /\ Free1
    /\ d' = init1(d)
    /\ dlast' = Step("Dying", "", init1(d).dying, FALSE)
    /\ UNCHANGED <<dpc, dwpc, dcrashed, dkilled, ddone>>
    /\ UNCHANGED tvars

\* t.Err(): init, lock, ErrStillRunning while t.state is running, else the
\* reason (nil for errCleanStop), unlock.
Err1 ==
    /\ Free1
    /\ d' = init1(d)
    /\ dlast' = Step("Err", "",
                     IF init1(d).state = "running" THEN ErrStillRunning
                     ELSE result1(init1(d).reason), FALSE)
    /\ UNCHANGED <<dpc, dwpc, dcrashed, dkilled, ddone>>
    /\ UNCHANGED tvars

\* The common part of Kill and Killf: init, lock, the body, unlock.  A panic
\* leaves the caller to recover it (rec) or ends the process.
KillWith1(op, reason, ret) ==
    LET k == kill1(init1(d), reason)
    IN  /\ Free1
        /\ d' = k.t
        /\ dlast' = Step(op, reason, ret, k.panic)
        /\ \E rec \in BOOLEAN : dcrashed' = (k.panic /\ ~rec)
        /\ dkilled' = TRUE
        /\ UNCHANGED <<dpc, dwpc, ddone>>
        /\ UNCHANGED tvars

\* t.Kill(reason), for any error value.
Kill1(reason) ==
    /\ Free1
    /\ KillWith1("Kill", reason, "")

\* t.Killf(f, a...): fmt.Errorf makes a real error, which is also returned.
Killf1(err) ==
    /\ Free1
    /\ KillWith1("Killf", err, err)

\* t.Done(), first part: init, then Kill(nil) from its lock to its unlock.
DoneKill(c) ==
    LET k == kill1(init1(d), nil)
    IN  /\ Free1
        /\ dpc[c] = "idle"
        /\ d' = k.t
        /\ dlast' = Step("DoneKill", "", "", k.panic)
        /\ \E rec \in BOOLEAN : dcrashed' = (k.panic /\ ~rec)
        /\ dpc' = [dpc EXCEPT ![c] = IF k.panic THEN "idle" ELSE "closing"]
        /\ UNCHANGED <<dwpc, dkilled, ddone>>
        /\ UNCHANGED tvars

\* t.Done(), second part: close(t.dead), no mutex held, then the return.  A
\* panic leaves the caller to recover it (rec) or ends the process.
DoneClose(c) ==
    /\ Free1
    /\ dpc[c] = "closing"
    /\ d' = [d EXCEPT !.dead = close(d.dead).ch]
    /\ dlast' = Step("DoneClose", "", "", close(d.dead).panic)
    /\ \E rec \in BOOLEAN : dcrashed' = (close(d.dead).panic /\ ~rec)
    /\ dpc' = [dpc EXCEPT ![c] = "idle"]
    /\ ddone' = (ddone \/ ~close(d.dead).panic)
    /\ UNCHANGED <<dwpc, dkilled>>
    /\ UNCHANGED tvars

\* t.Wait(): init, then block on <-t.dead.
Wait1Call(w) ==
    /\ Free1
    /\ dwpc[w] = "idle"
    /\ d' = init1(d)
    /\ dwpc' = [dwpc EXCEPT ![w] = "blocked"]
    /\ dlast' = Step("Wait", "", "", FALSE)
    /\ UNCHANGED <<dpc, dcrashed, dkilled, ddone>>
    /\ UNCHANGED tvars

\* t.Wait(): <-t.dead goes through.
Wait1Recv(w) ==
    /\ Free1
    /\ dwpc[w] = "blocked"
    /\ recv(d.dead)
    /\ dwpc' = [dwpc EXCEPT ![w] = "woken"]
    /\ dlast' = Step("recv", "", "", FALSE)
    /\ UNCHANGED <<d, dpc, dcrashed, dkilled, ddone>>
    /\ UNCHANGED tvars

\* t.Wait(): read t.reason (no mutex is taken for it) and return it, nil for
\* errCleanStop.  The read races with the store of a Kill: it sees the value
\* before or after it, which are the two orders of this step and Kill.
Wait1Ret(w) ==
    /\ Free1
    /\ dwpc[w] = "woken"
    /\ dwpc' = [dwpc EXCEPT ![w] = "idle"]
    /\ dlast' = Step("WaitRet", "", result1(d.reason), FALSE)
    /\ UNCHANGED <<d, dpc, dcrashed, dkilled, ddone>>
    /\ UNCHANGED tvars

NextDone ==
    \/ Dead1
    \/ Dying1
    \/ Err1
    \/ \E reason \in Errors1 : Kill1(reason)
    \/ \E err \in RealErrs : Killf1(err)
    \/ \E c \in Doners : DoneKill(c)
    \/ \E c \in Doners : DoneClose(c)
    \/ \E w \in Waiters : Wait1Call(w)
    \/ \E w \in Waiters : Wait1Recv(w)
    \/ \E w \in Waiters : Wait1Ret(w)

SpecDone == Init /\ [][NextDone]_vars

\* ------------------------------------------------------------------ claims

\* The units Go has accepted, and those of them whose function still runs.
Registered == {u \in Units : upc[u] \notin {"idle", "dropped"}}
Outstanding == {u \in Units : upc[u] = "running"}

\* C1: first genuine failure wins.  The recorded reason is the first real
\* error handed to the Tomb under the mutex, in every state from then on; Err
\* and Wait return that error; and a step never changes a recorded real error.
C1_FirstRealWins ==
    /\ [](firstReal # "none" => t.reason = firstReal)
    /\ [](last.op \in {"Err", "WaitRet"} /\ firstReal # "none" => last.ret = firstReal)
    /\ [][IsReal(t.reason) => t'.reason = t.reason]_vars

\* C1 witness: all units are done, the Tomb is dead, and a Kill with another
\* real error than the first one has just returned.
C1_Witness ==
    /\ t.dead = "closed"
    /\ last.op = "Kill" /\ IsReal(last.arg)
    /\ firstReal # "none" /\ last.arg # firstReal
    /\ t.reason = firstReal

\* C2: a clean outcome never overrides a real failure.  Kill(nil) or a unit
\* returning nil leaves a recorded real error alone; a real error handed in
\* after a clean stop replaces it; Err and Wait return nil only if no real
\* error was ever handed in, and Wait returns a real error if one was.
C2_CleanNeverOverrides ==
    /\ [](last.op \in {"Err", "WaitRet"} /\ last.ret = nil => firstReal = "none")
    /\ [](last.op = "WaitRet" /\ firstReal # "none" => IsReal(last.ret))
    /\ [][/\ (last'.op \in {"Kill", "run"} /\ last'.arg = nil /\ IsReal(t.reason)
                => t'.reason = t.reason)
          /\ (last'.op \in {"Kill", "Killf", "run"} /\ IsReal(last'.arg)
                /\ t.dead # "nil" /\ t.reason = nil
                => t'.reason = last'.arg)]_vars

\* C2 witness: Kill recorded a real error while a unit ran, and the last unit
\* has now returned nil (it is about to close dead): the error is still there.
C2_Witness ==
    /\ last.op = "run" /\ last.arg = nil
    /\ m # 0
    /\ ~unitFailed
    /\ IsReal(t.reason)

\* C3: the Tomb is dead exactly when at least one unit was registered and
\* every registered unit has completed its reap; the count of live units is
\* then zero, and no registered unit is still running.
C3_DeadIffAllReaped ==
    /\ (t.dead = "closed") <=> (Registered # {} /\ \A u \in Registered : upc[u] = "done")
    /\ t.dead = "closed" => t.alive = 0 /\ Outstanding = {}

\* C3 witness: every unit was registered and has been reaped.
C3_Witness ==
    /\ t.dead = "closed"
    /\ \A u \in Units : upc[u] = "done"

\* C4: dying precedes dead: whenever the dead channel is closed, so is the
\* dying channel, and the step that closes the dead channel starts with the
\* dying channel already closed.
C4_DyingBeforeDead ==
    /\ [](t.dead = "closed" => t.dying = "closed")
    /\ [][t.dead # "closed" /\ t'.dead = "closed" => t.dying = "closed"]_vars

\* C4 witness: the Tomb is dead though nobody called Kill and no unit
\* returned an error: the last unit returned nil.
C4_Witness ==
    /\ t.dead = "closed"
    /\ ~killCalled
    /\ ~unitFailed

\* C5: Wait does not get past its receive before the dead channel is closed,
\* and what it returns is neither ErrStillAlive nor ErrDying.
C5_WaitAfterDead ==
    /\ \A w \in Waiters : wpc[w] = "woken" => t.dead = "closed"
    /\ last.op = "WaitRet" => t.dead = "closed" /\ (last.ret = nil \/ IsReal(last.ret))
    /\ firstWait \in {"none", nil} \cup RealErrs

\* C5 witness: Wait has just returned a real error.
C5_Witness == last.op = "WaitRet" /\ IsReal(last.ret)

\* C6, as stated: every Wait returns what the first Wait returned.
C6_WaitIdempotent == last.op = "WaitRet" => last.ret = firstWait

\* C6, amended: a Wait returns what the first Wait returned, unless that was
\* nil and a real error was handed in since: then it returns the first such
\* error.  On a dead Tomb the reason changes in no other step than a Kill or
\* Killf with a real error on a nil reason.
C6_WaitStable ==
    /\ [](last.op = "WaitRet" =>
            \/ last.ret = firstWait
            \/ firstWait = nil /\ IsReal(last.ret) /\ last.ret = firstReal)
    /\ [][t.dead = "closed" /\ t'.reason # t.reason =>
            /\ last'.op \in {"Kill", "Killf"}
            /\ IsReal(last'.arg)
            /\ t.reason = nil
            /\ t'.reason = last'.arg]_vars

\* C6 witness: a Wait has returned a real error after an earlier Wait
\* returned nil.
C6_Witness == last.op = "WaitRet" /\ firstWait = nil /\ IsReal(last.ret)

\* C7: Kill(ErrDying), or a unit returning ErrDying, on a Tomb that is still
\* alive panics, and records no reason and does not close the dying channel.
C7_AckWhileAlivePanics ==
    [][last'.op \in {"Kill", "run"} /\ last'.arg = ErrDying
          /\ init(t).reason = ErrStillAlive
        => /\ last'.panic
           /\ t'.reason = ErrStillAlive
           /\ t'.dying = "open"]_vars

\* C7 witness: Kill(ErrDying) has panicked on a Tomb that is still alive.
C7_Witness ==
    /\ last.op = "Kill" /\ last.arg = ErrDying /\ last.panic
    /\ t.reason = ErrStillAlive

\* C8: on a dying or dead Tomb, Kill(ErrDying) or a unit returning ErrDying
\* does not panic and leaves the reason and the dying channel as they are;
\* ErrDying is never the recorded reason.
C8_AckIsNoop ==
    /\ [](t.reason # ErrDying)
    /\ [][last'.op \in {"Kill", "run"} /\ last'.arg = ErrDying /\ t.dying = "closed"
            => /\ ~last'.panic
               /\ t'.reason = t.reason
               /\ t'.dying = t.dying]_vars

\* C8 witness: Kill(ErrDying) has returned on a Tomb whose reason is nil.
C8_Witness ==
    /\ last.op = "Kill" /\ last.arg = ErrDying /\ ~last.panic
    /\ t.reason = nil

\* What t.Alive() returns in this state.
AliveNow == init(t).reason = ErrStillAlive

\* C9, as stated: Alive() iff Kill or Killf was never called, no unit
\* returned a non-nil error, and a unit is outstanding or none was registered.
C9_AliveIffNoKillCall ==
    ~crashed =>
        (AliveNow <=> /\ ~killCalled
                      /\ ~unitFailed
                      /\ (Outstanding # {} \/ Registered = {}))

\* C9, amended: Alive() iff no call of Kill or Killf has returned without a
\* panic, no unit returned a non-nil error, and a unit is outstanding or none
\* was registered; once Alive() is false it stays false.
C9_AliveIffNoStop ==
    /\ [](~crashed =>
            (AliveNow <=> /\ ~killDone
                          /\ ~unitFailed
                          /\ (Outstanding # {} \/ Registered = {})))
    /\ [][~AliveNow => ~AliveNow']_vars

\* C9 witness: a unit is running, a call of Kill has panicked and was
\* recovered, and the Tomb is still alive.
C9_Witness ==
    /\ AliveNow
    /\ killCalled
    /\ ~crashed
    /\ Outstanding # {}

\* The lifecycle phase: 0 not initialised, 1 running, 2 dying, 3 dead.
Phase(tb) ==
    IF tb.dead = "closed" THEN 3
    ELSE IF tb.dying = "closed" THEN 2
    ELSE IF tb.dead # "nil" THEN 1
    ELSE 0

\* C10: the phase only moves forward, a closed channel stays closed, and the
\* reason, once it is not ErrStillAlive, never is ErrStillAlive again.
C10_Monotonic ==
    [][/\ Phase(t)' >= Phase(t)
       /\ (t.dying = "closed" => t'.dying = "closed")
       /\ (t.dead = "closed" => t'.dead = "closed")
       /\ (t.dead # "nil" /\ t.reason # ErrStillAlive => t'.reason # ErrStillAlive)]_vars

\* C10 witness: Go was called with a function on a dead Tomb.
C10_Witness == t.dead = "closed" /\ last.op = "Go" /\ last.arg # "0"

\* The functions a step hands to Go: they leave "idle" in it.
Handed == {u \in Units : upc[u] = "idle" /\ upc'[u] # "idle"}

\* C11: Go on a dead Tomb is a no-op: none of its functions is started, now
\* or later, t.alive stays 0, and the reason and both channels stay as they
\* are.
C11_GoOnDeadIsNoop ==
    /\ [][last'.op = "Go" /\ t.dead = "closed"
            => /\ t' = t
               /\ t'.alive = 0
               /\ \A u \in Handed : upc'[u] = "dropped"
               /\ \A u \in Units : upc'[u] = "running" => upc[u] = "running"]_vars
    /\ [][\A u \in Units : upc[u] = "dropped" => upc'[u] = "dropped"]_vars

\* C11 witness: Go has just been called with a function on a dead Tomb whose
\* reason is a real error, and the function was dropped.
C11_Witness ==
    /\ last.op = "Go" /\ last.arg # "0"
    /\ t.dead = "closed" /\ IsReal(t.reason)
    /\ \E u \in Units : upc[u] = "dropped"

\* C12: when a unit returns a real error while other units run on a live
\* Tomb, its reap closes the dying channel and records the error with
\* t.alive still positive and the dead channel open; the dead channel is not
\* closed while a unit runs; and if no Kill was called, Wait returns the
\* first real error a unit returned, whatever the other units return.
C12_FailureAmongSeveral ==
    /\ [][last'.op = "run" /\ IsReal(last'.arg) /\ t.alive > 1
            /\ t.reason = ErrStillAlive
            => /\ t'.dying = "closed"
               /\ t'.reason = last'.arg
               /\ t'.alive > 0
               /\ t'.dead = "open"
               /\ m' = 0]_vars
    /\ [](Outstanding # {} => t.dead # "closed")
    /\ [](last.op = "WaitRet" /\ ~killCalled /\ firstReal # "none"
            => last.ret = firstReal)

\* C12 witness: no Kill was called, a unit returned a real error, and the
\* last unit has now returned ErrDying (it is about to close dead): the
\* reason is still that error.
C12_Witness ==
    /\ last.op = "run" /\ last.arg = ErrDying /\ ~last.panic
    /\ m # 0
    /\ ~killCalled
    /\ IsReal(t.reason) /\ t.reason = firstReal

\* C14: one call of Go on a Tomb that is not dead counts all its functions
\* and starts all of them in one step; t.alive is the number of running
\* functions, so the dead channel is not closed while one of them runs.
C14_BatchIsAtomic ==
    /\ [][last'.op = "Go" /\ t.dead # "closed"
            => /\ t'.alive = t.alive + Cardinality(Handed)
               /\ \A u \in Handed : upc'[u] = "running"]_vars
    /\ [](t.alive = Cardinality(Outstanding))
    /\ [](t.dead = "closed" => Outstanding = {})

\* C14 witness: Go has just been called with several functions, all running.
C14_Witness ==
    /\ last.op = "Go" /\ last.arg \notin {"0", "1"}
    /\ Cardinality(Outstanding) >= 2
    /\ t.alive = Cardinality(Outstanding)

\* C15: a function handed to Go is dropped only on a Tomb that an earlier
\* Go's function has made dead by returning, and a dropped function never
\* runs.  (That such a state is reachable is the witness.)
C15_SecondGoMayBeDropped ==
    /\ [](\A u \in Units : upc[u] = "dropped" =>
            /\ t.dead = "closed"
            /\ \E v \in Units : v # u /\ upc[v] = "done")
    /\ [][\A u \in Units : upc[u] = "dropped" => upc'[u] = "dropped"]_vars

\* C15 witness: the function of the first Go returned nil and the Tomb is
\* dead; the second Go, alone with its function, has dropped it; nobody
\* called Kill.
C15_Witness ==
    /\ last.op = "Go" /\ last.arg = "1"
    /\ ~killCalled /\ ~unitFailed
    /\ \E u, v \in Units : upc[u] = "done" /\ upc[v] = "dropped"

\* C18: t.alive is never negative; it is the number of functions Go has
\* started that have not returned into their reap, and, whenever the mutex
\* is free, the number of registered units whose reap is not complete.
C18_AliveCountsUnits ==
    /\ t.alive >= 0
    /\ t.alive = Cardinality(Outstanding)
    /\ (m = 0 /\ ~crashed =>
          t.alive = Cardinality({u \in Registered : upc[u] # "done"}))

\* C18 witness: of several registered units one is reaped and one runs.
C18_Witness ==
    /\ t.alive = 1
    /\ \E u, v \in Units : upc[u] = "done" /\ upc[v] = "running"

\* C20: Go on a Tomb that is dying and not dead counts and starts its
\* functions, and the dead channel is not closed while one of them runs.
C20_GoWhileDying ==
    /\ [][last'.op = "Go" /\ t.dying = "closed" /\ t.dead # "closed"
            => /\ t'.alive = t.alive + Cardinality(Handed)
               /\ \A u \in Handed : upc'[u] = "running"
               /\ t'.dead # "closed"]_vars
    /\ [](\A u \in Units : upc[u] = "running" => t.dead # "closed")

\* C20 witness: Go has just started a function on a dying Tomb.
C20_Witness ==
    /\ last.op = "Go" /\ last.arg # "0"
    /\ t.dying = "closed" /\ t.dead = "open"
    /\ t.alive > 0

\* C19: the mutex is held from one step to the next only by a reap that is
\* between t.alive-- and close(t.dead): never by a goroutine whose function
\* runs, never by a caller blocked in Wait.  Its holder can always go on and
\* release it, and with the mutex free every method of the Tomb can be
\* called, from a running function or beside a blocked Wait.
C19_NoLockAcrossBlocking ==
    /\ m # 0 => m \in Units /\ upc[m] = "closing"
    /\ (~crashed /\ m # 0) => ENABLED RunClose(m)
    /\ (~crashed /\ m = 0) =>
          /\ ENABLED Err
          /\ ENABLED Alive
          /\ ENABLED Kill(nil)
          /\ ENABLED Go({})
          /\ \A u \in Outstanding : ENABLED Run(u, nil)
    /\ \A w \in Waiters :
          (~crashed /\ wpc[w] = "blocked" /\ t.dead = "closed") => ENABLED WaitRecv(w)

\* C19 witness: while a function runs and a caller is blocked in Wait, a
\* call of Kill has gone through.
C19_Witness ==
    /\ Outstanding # {}
    /\ \E w \in Waiters : wpc[w] = "blocked"
    /\ last.op = "Kill" /\ ~last.panic
    /\ m = 0

\* C13: under FairSpec, once a unit is registered the dead channel is
\* eventually closed, and a caller blocked in Wait on such a Tomb eventually
\* returns, unless a panic ends the process.  Registered units stay
\* registered, a closed channel stays closed and a caller that has returned
\* is idle, so each "from then on, eventually" is an "always eventually".
C13_EventuallyDead ==
    /\ []<>(Registered = {} \/ t.dead = "closed" \/ crashed)
    /\ \A w \in Waiters : []<>(Registered = {} \/ wpc[w] = "idle" \/ crashed)

\* C13 witness: every unit is reaped and a caller that was blocked in Wait
\* has got through its receive.
C13_Witness ==
    /\ \A u \in Units : upc[u] = "done"
    /\ \E w \in Waiters : wpc[w] = "woken"
    /\ last.op = "recv"

C17_NeverClosedTwice ==
    dlast.op \in {"Kill", "Killf", "DoneKill", "DoneClose"} => ~dlast.panic

\* C17, amended: t.dying is closed at most once (Kill closes it under the
\* mutex and only while t.state is running), and the first close(t.dead) of
\* a Done goes through; the one close of a closed signal is the unguarded
\* close(t.dead) of a Done that comes after another Done.
C17_OnlyDoneClosesTwice ==
    [][ /\ dlast'.panic => (dlast'.op = "DoneClose" /\ d.dead = "closed")
        /\ d.dying = "closed" => d'.dying = "closed"
        /\ d.dead = "closed" => d'.dead = "closed"
        /\ (dlast'.op = "DoneClose" /\ d.dead = "open")
                => (~dlast'.panic /\ d'.dead = "closed")
      ]_vars

\* A second Done has panicked on close(t.dead) and the caller recovered.
C17_Witness ==
    /\ dlast.op = "DoneClose"
    /\ dlast.panic
    /\ ~dcrashed

\* C17, the Tomb of src/unnamed/part_001 (under Spec): run closes t.dead
\* without a panic, a closed signal stays closed, and the only panics are
\* those of kill for ErrStillAlive and ErrDying, which come before any close.
C17_RunAndKillCloseOnce ==
    [][ /\ last'.op = "close" => ~last'.panic
        /\ last'.panic => (/\ last'.op \in {"Kill", "Killf", "run"}
                           /\ last'.arg \in {ErrStillAlive, ErrDying}
                           /\ t'.dying = init(t).dying
                           /\ t'.dead = init(t).dead)
        /\ t.dying = "closed" => t'.dying = "closed"
        /\ t.dead = "closed" => t'.dead = "closed"
      ]_vars

\* C21: the dying signal and the reason agree in every state, as any method
\* finds them (each starts with t.init(), and a Tomb that no method has
\* touched yet is alive with nothing fired): t.dying is closed exactly when
\* t.reason is not ErrStillAlive, and Alive() has returned false exactly
\* when a receive from t.dying goes through.
C21_DyingIffReason ==
    /\ init(t).dying = "closed" <=> init(t).reason # ErrStillAlive
    /\ t.dead # "nil" => (t.dying = "closed" <=> t.reason # ErrStillAlive)
    /\ last.op = "Alive" => (last.ret = ToString(FALSE) <=> recv(t.dying))
    /\ last.op = "Dying" => (last.ret = "closed" <=> ~AliveNow)

\* Alive() has returned false on a Tomb whose dying signal is fired.
C21_Witness ==
    /\ last.op = "Alive"
    /\ last.ret = ToString(FALSE)
    /\ recv(t.dying)

\* C22: as long as Go has been given no function, t.alive is 0, the dead
\* channel is not closed and no caller of Wait gets past <-t.dead; Go with no
\* function leaves the Tomb and the units as its t.init() finds them; and a
\* Kill or Killf that does not panic leaves the dying channel closed and the
\* dead channel open.
C22_NoUnitsNeverDead ==
    /\ [](Registered = {}
            => /\ t.alive = 0
               /\ t.dead # "closed"
               /\ \A w \in Waiters : wpc[w] \in {"idle", "blocked"})
    /\ [][last'.op = "Go" /\ last'.arg = ToString(0)
            => /\ t' = init(t)
               /\ upc' = upc]_vars
    /\ [][last'.op \in {"Kill", "Killf"} /\ ~last'.panic /\ Registered = {}
            => /\ t'.dying = "closed"
               /\ t'.dead = "open"
               /\ t'.alive = 0]_vars

\* Go() with no function has just returned on a Tomb without units that was
\* killed and on which a caller of Wait is blocked.
C22_Witness ==
    /\ Registered = {}
    /\ t.dying = "closed"
    /\ killDone
    /\ \E w \in Waiters : wpc[w] = "blocked"
    /\ last.op = "Go" /\ last.arg = ToString(0)

\* C23: Kill(ErrStillAlive) panics whatever the state of the Tomb, and leaves
\* the reason, t.alive and both channels as its t.init() finds them; the
\* units and the callers of Wait are where they were.
C23_KillStillAlivePanics ==
    [][last'.op = "Kill" /\ last'.arg = ErrStillAlive
            => /\ last'.panic
               /\ t' = init(t)
               /\ t.dead # "nil" => t' = t
               /\ UNCHANGED <<m, upc, wpc>>]_vars

\* Kill(ErrStillAlive) has panicked on a dead Tomb whose reason is a real
\* error, and the caller has recovered the panic.
C23_Witness ==
    /\ last.op = "Kill" /\ last.arg = ErrStillAlive /\ last.panic
    /\ t.dead = "closed" /\ IsReal(t.reason)
    /\ ~crashed

\* C24: t.init() makes the channels and sets ErrStillAlive once, whatever
\* method comes first and however the calls interleave: the channels held
\* are nil or those of the first make, every step leaves those of the first
\* make in place, Dead() and Dying() return them, the first step finds them
\* open (a Kill or Killf may close t.dying in it), and once they are made
\* t.init() changes nothing: a closed channel stays closed and a reason that
\* has replaced ErrStillAlive is not set back.
C24_InitOnce ==
    /\ [](/\ t.made \in {0, 1}
          /\ t.made = 0 <=> t = Tomb
          /\ t.made = 1 <=> (t.dying # "nil" /\ t.dead # "nil"))
    /\ [][t'.made = 1]_vars
    /\ [][last'.op \in {"Dead", "Dying"} => (t'.made = 1 /\ last'.ret # "nil")]_vars
    /\ [][t.made = 0
            => /\ t'.dead = "open"
               /\ t'.dying = IF last'.op \in {"Kill", "Killf"} /\ ~last'.panic
                             THEN "closed" ELSE "open"
               /\ t'.dying = "open" => t'.reason = ErrStillAlive]_vars
    /\ [][t.made = 1
            => /\ init(t) = t
               /\ t.dying = "closed" => t'.dying = "closed"
               /\ t.dead = "closed" => t'.dead = "closed"
               /\ t.reason # ErrStillAlive => t'.reason # ErrStillAlive]_vars

\* Dead() has been called, and has run t.init(), on a Tomb that is dead with
\* a real error for its reason.
C24_Witness ==
    /\ last.op = "Dead" /\ last.ret = "closed"
    /\ t.made = 1
    /\ t.dying = "closed"
    /\ IsReal(t.reason)

\* C24, the Tomb of src/tomb.go (under SpecDone): the same for its t.init(),
\* which tests t.state.
C24_InitOnce1 ==
    /\ [](/\ d.made \in {0, 1}
          /\ d.made = 0 <=> d = Tomb1
          /\ d.made = 1 <=> (d.dying # "nil" /\ d.dead # "nil" /\ d.state # "uninitialized"))
    /\ [][d'.made = 1]_vars
    /\ [][dlast'.op \in {"Dead", "Dying"} => (d'.made = 1 /\ dlast'.ret # "nil")]_vars
    /\ [][d.made = 1
            => /\ init1(d) = d
               /\ d.dying = "closed" => d'.dying = "closed"
               /\ d.dead = "closed" => d'.dead = "closed"
               /\ d.state = "dying" => d'.state = "dying"
               /\ d.reason # nil => d'.reason # nil]_vars

====
